---- MODULE Spec2Model ----
(***************************************************************************)
(* Model of src/index.js: the translation fallback chain                   *)
(* smartTranslate -> translateDeepL -> translateLibre(/translateLibreAt)   *)
(* -> translateGooglePublic.                                               *)
(*                                                                         *)
(* Strings are sequences of one-character tokens.  Characters outside      *)
(* ASCII are written by their code point ("u3042" is HIRAGANA LETTER A).   *)
(***************************************************************************)
EXTENDS Integers, Sequences, FiniteSets, TLC

\* ------------------------------------------------------------------------
\* Bounds of the model
\* ------------------------------------------------------------------------
\* longest comma-separated LIBRETRANSLATE_URLS list that is enumerated
MaxRaw == 3

\* most whitespace characters put in front of, and behind, a normalizer input
MaxPad == 1

\* number of messages users and other bots post
MaxMessages == 2

\* ------------------------------------------------------------------------
\* String primitives (String.prototype.trim / toLowerCase / toUpperCase /
\* split('-')[0]) over sequences of character tokens
\* ------------------------------------------------------------------------
UpperChars == <<"A","B","C","D","E","F","G","H","I","J","K","L","M",
                "N","O","P","Q","R","S","T","U","V","W","X","Y","Z">>

LowerChars == <<"a","b","c","d","e","f","g","h","i","j","k","l","m",
                "n","o","p","q","r","s","t","u","v","w","x","y","z">>

WhiteSpace == {" ", "\t", "\n"}

LowerChar(c) ==
    IF \E i \in 1..26 : UpperChars[i] = c
    THEN LowerChars[CHOOSE i \in 1..26 : UpperChars[i] = c]
    ELSE c

UpperChar(c) ==
    IF \E i \in 1..26 : LowerChars[i] = c
    THEN UpperChars[CHOOSE i \in 1..26 : LowerChars[i] = c]
    ELSE c

toLowerCase(s) == [i \in 1..Len(s) |-> LowerChar(s[i])]

toUpperCase(s) == [i \in 1..Len(s) |-> UpperChar(s[i])]

RECURSIVE trimStart(_)
trimStart(s) ==
    IF s # <<>> /\ Head(s) \in WhiteSpace THEN trimStart(Tail(s)) ELSE s

RECURSIVE trimEnd(_)
trimEnd(s) ==
    IF s # <<>> /\ s[Len(s)] \in WhiteSpace
    THEN trimEnd(SubSeq(s, 1, Len(s) - 1))
    ELSE s

trim(s) == trimEnd(trimStart(s))

\* s.split('-')[0]: the part of s before its first '-' (all of s if none)
splitFirst(s) ==
    IF \E i \in 1..Len(s) : s[i] = "-"
    THEN SubSeq(s, 1, (CHOOSE i \in 1..Len(s) :
                          s[i] = "-" /\ \A j \in 1..(i - 1) : s[j] # "-") - 1)
    ELSE s

\* the value `undefined` (distinct from every string, the empty one included)
Undefined == <<"#undefined">>

\* JavaScript `a || b` on string-or-undefined operands
OrElse(a, b) == IF a = Undefined \/ a = <<>> THEN b ELSE a

\* ------------------------------------------------------------------------
\* Compiled-in configuration
\* ------------------------------------------------------------------------
FLAG_TO_LANG ==
    << <<"E","N","-","U","S">>, <<"E","S">>, <<"F","R">>,
       <<"P","T","-","P","T">>, <<"I","N">>, <<"K","R">>, <<"J","P">>,
       <<"P","L">>, <<"Z","H","-","T","W">> >>

DEEPL_SUPPORTED_TARGETS ==
    { <<"B","G">>, <<"C","S">>, <<"D","A">>, <<"D","E">>, <<"E","L">>,
      <<"E","N">>, <<"E","N","-","G","B">>, <<"E","N","-","U","S">>,
      <<"E","S">>, <<"E","T">>, <<"F","I">>, <<"F","R">>, <<"H","U">>,
      <<"I","D">>, <<"I","T">>, <<"J","A">>, <<"K","O">>, <<"L","T">>,
      <<"L","V">>, <<"N","B">>, <<"N","L">>, <<"P","L">>, <<"P","T">>,
      <<"P","T","-","P","T">>, <<"P","T","-","B","R">>, <<"R","O">>,
      <<"R","U">>, <<"S","K">>, <<"S","L">>, <<"S","V">>, <<"T","R">>,
      <<"U","K">>, <<"Z","H">> }

\* variant: a replacement ("hello") is itself a key of the table
dict_chained ==
    { << <<"u3053","u3093","u306B","u3061","u306F">>, <<"h","e","l","l","o">> >>,
      << <<"h","e","l","l","o">>, <<"h","i">> >>,
      << <<"d","a","n","k","i","e">>, <<"t","h","a","n","k"," ","y","o","u">> >> }

\* the lookup table of preProcessText, as (key, replacement) pairs
dict ==
    { << <<"u3082","u3057"," ","u3082","u3057">>, <<"h","e","l","l","o">> >>,
      << <<"u3082","u3057","u3082","u3057">>,     <<"h","e","l","l","o">> >>,
      << <<"u3053","u3093","u306B","u3061","u306F">>, <<"h","e","l","l","o">> >>,
      << <<"u3053","u3093","u3070","u3093","u306F">>,
         <<"g","o","o","d"," ","e","v","e","n","i","n","g">> >>,
      << <<"u3042","u308A","u304C","u3068","u3046">>,
         <<"t","h","a","n","k"," ","y","o","u">> >>,
      << <<"a","f","r","i","k","a","a","n","s"," ","d","a","n","k","i","e">>,
         <<"t","h","a","n","k"," ","y","o","u">> >>,
      << <<"d","a","n","k","i","e">>, <<"t","h","a","n","k"," ","y","o","u">> >> }

dictGet(t) ==
    IF \E p \in dict : p[1] = t
    THEN (CHOOSE p \in dict : p[1] = t)[2]
    ELSE Undefined

\* variant: a miss returns the trimmed text
preProcessText_trimsMiss(text) ==
    OrElse(dictGet(toLowerCase(trim(text))), trim(text))

preProcessText(text) == OrElse(dictGet(toLowerCase(trim(text))), text)

\* ------------------------------------------------------------------------
\* Environment (.env) and request inputs that are enumerated
\* ------------------------------------------------------------------------
\* DEEPL_KEY: unset, or some key
KeyValues == { Undefined, <<"k","e","y">> }

\* entries of LIBRETRANSLATE_URLS between the commas
RawEntries == { <<" ">>, <<"A">>, <<"B"," ">> }

RECURSIVE SeqsUpTo(_, _)
SeqsUpTo(S, n) ==
    IF n = 0 THEN { <<>> }
    ELSE LET shorter == SeqsUpTo(S, n - 1)
         IN  shorter \cup { Append(q, e) : q \in shorter, e \in S }

RawLists == SeqsUpTo(RawEntries, MaxRaw)

Originals ==
    { <<"u3042","u308A","u304C","u3068","u3046">>,
      <<" ","D","a","n","k","i","e">>,
      <<"H","i"," ">> }

\* offered codes (supported and not), a lowercase spelling, the empty code
TargetCodes ==
    { FLAG_TO_LANG[i] : i \in { 1, 4, 7, 9 } }
        \cup { <<"p","t","-","p","t">>, <<>> }

\* res.json() rejects on a body that is no JSON
Parses(body) == body.kind # "invalid"

\* translations a provider may answer with
Translations == { <<"O","l","a">>, <<"T","h","x","!">> }

\* ------------------------------------------------------------------------
\* Module-level values derived from the environment
\* ------------------------------------------------------------------------
RECURSIVE filterBoolean(_)
filterBoolean(q) ==
    IF q = <<>> THEN <<>>
    ELSE IF Head(q) = <<>> THEN filterBoolean(Tail(q))
         ELSE <<Head(q)>> \o filterBoolean(Tail(q))

LIBRE_ENDPOINTS(raw) == filterBoolean([i \in 1..Len(raw) |-> trim(raw[i])])

\* 'https://libretranslate.de', the pool used when none is configured
DefaultEndpoint == <<"D","E">>

\* `list` of translateLibre
LibreList(raw) ==
    IF Len(LIBRE_ENDPOINTS(raw)) > 0 THEN LIBRE_ENDPOINTS(raw)
    ELSE <<DefaultEndpoint>>

\* variant: the supported-target set is not consulted
DeepLEligible_keyOnly(key, target) == key # Undefined /\ key # <<>>

\* the guard of smartTranslate in front of the DeepL attempt
DeepLEligible(key, target) ==
    /\ key # Undefined /\ key # <<>>
    /\ toUpperCase(target) \in DEEPL_SUPPORTED_TARGETS

\* variant: the region is cut off but the case is kept
TargetBase_keepsCase(target) == splitFirst(target)

\* targetBase of smartTranslate
TargetBase(target) == toLowerCase(splitFirst(target))

\* ------------------------------------------------------------------------
\* Response payloads and what each adapter extracts from them
\* ------------------------------------------------------------------------
\* DeepL: a body that is no JSON, null, {}, {translations: []},
\* {translations: [{}]}, {translations: [{text: s}]}
DeepLBodies ==
    { [kind |-> "invalid", translations |-> <<>>],
      [kind |-> "null", translations |-> <<>>],
      [kind |-> "notranslations", translations |-> <<>>],
      [kind |-> "obj", translations |-> <<>>],
      [kind |-> "obj", translations |-> << [text |-> Undefined] >>] }
    \cup { [kind |-> "obj", translations |-> << [text |-> s] >>] :
              s \in Translations \cup { <<>> } }

\* data?.translations?.[0]?.text
DeepLExtract(data) ==
    IF data.kind = "null" THEN Undefined
    ELSE IF data.kind = "notranslations" THEN Undefined
    ELSE IF Len(data.translations) = 0 THEN Undefined
    ELSE data.translations[1].text

\* line 103
DeepLResult(data, txt) == OrElse(DeepLExtract(data), txt)

\* Libre: a body that is no JSON, null, {}, {translatedText: s}
LibreBodies ==
    { [kind |-> "invalid", translatedText |-> Undefined],
      [kind |-> "null", translatedText |-> Undefined],
      [kind |-> "obj", translatedText |-> Undefined] }
    \cup { [kind |-> "obj", translatedText |-> s] :
              s \in Translations \cup { <<>> } }

LibreExtract(data) ==
    IF data.kind = "null" THEN Undefined ELSE data.translatedText

\* variant: no `|| text`
LibreResult_noDegrade(data, txt) == LibreExtract(data)

\* line 142: data?.translatedText || text
LibreResult(data, txt) == OrElse(LibreExtract(data), txt)

\* Google: a body that is no JSON, null, [], [x] with x a truthy non-array,
\* [[...segments]]; a segment is given by its element [0]
GoogleBodies ==
    { [kind |-> "invalid", first |-> <<>>],
      [kind |-> "null", first |-> <<>>],
      [kind |-> "nofirst", first |-> <<>>],
      [kind |-> "nonarray", first |-> <<>>],
      [kind |-> "arr", first |-> <<>>],
      [kind |-> "arr", first |-> << Undefined >>],
      [kind |-> "arr", first |-> << <<>>, Undefined >>] }
    \cup { [kind |-> "arr", first |-> << s >>] : s \in Translations }
    \cup { [kind |-> "arr", first |-> << p[1], Undefined, p[2] >>] :
              p \in { q \in Translations \X Translations : q[1] # q[2] } }

\* (json?.[0] || []).map(...) throws a TypeError on a non-array
GoogleThrows(json) == json.kind = "nonarray"

\* (json?.[0] || []).map(seg => seg?.[0])
GoogleSegments(json) == IF json.kind = "arr" THEN json.first ELSE <<>>

\* .filter(Boolean) on the segment texts
RECURSIVE filterChunks(_)
filterChunks(q) ==
    IF q = <<>> THEN <<>>
    ELSE IF Head(q) = Undefined \/ Head(q) = <<>> THEN filterChunks(Tail(q))
         ELSE <<Head(q)>> \o filterChunks(Tail(q))

\* chunks.join(' ')
RECURSIVE join(_)
join(q) ==
    IF q = <<>> THEN <<>>
    ELSE IF Len(q) = 1 THEN Head(q)
         ELSE Head(q) \o <<" ">> \o join(Tail(q))

\* variant: no `|| text`
GoogleResult_noDegrade(json, txt) == join(filterChunks(GoogleSegments(json)))

\* lines 166-167
GoogleResult(json, txt) == OrElse(join(filterChunks(GoogleSegments(json))), txt)

\* ------------------------------------------------------------------------
\* State of one smartTranslate request
\* ------------------------------------------------------------------------
VARIABLES
    DEEPL_KEY,            \* process.env.DEEPL_KEY
    LIBRETRANSLATE_URLS,  \* process.env.LIBRETRANSLATE_URLS, split at ','
    original,             \* argument `original` of smartTranslate
    targetDeepL,          \* argument `targetDeepL` of smartTranslate
    pc,                   \* the await the request is suspended at
    text,                 \* local `text` of smartTranslate
    targetBase,           \* local `targetBase` of smartTranslate
    idx,                  \* position of `base` in `list` (translateLibre)
    lastErr,              \* local `lastErr` of translateLibre
    timer,                \* the setTimeout of withTimeout
    net,                  \* the transport of the call that is awaited
    calls,                \* outbound fetches issued so far, in order
    inflight,             \* indices in calls of adapter calls not yet settled
    warns,                \* console.warn lines written so far
    body,                 \* the last payload res.json() was given, and its call
    outcome,              \* "running", "returned" or "thrown"
    result                \* value returned (or error thrown) by smartTranslate

\* ------------------------------------------------------------------------
\* State outside smartTranslate
\* ------------------------------------------------------------------------
VARIABLES
    nPc,                  \* passes of preProcessText applied to nIn
    nIn,                  \* a text handed to preProcessText
    nOut1,                \* preProcessText(nIn)
    nOut2                 \* preProcessText(preProcessText(nIn))

normVars == << nPc, nIn, nOut1, nOut2 >>

\* One button interaction in the InteractionCreate handler
VARIABLES
    hPc,                  \* the await the handler is suspended at
    isButton,             \* interaction.isButton()
    customId,             \* interaction.customId
    hasChannel,           \* interaction.channel is set
    lang,                 \* local `lang`
    content,              \* originalMsg?.content of the fetched message
    deferred,             \* interaction.deferred
    replied,              \* interaction.replied
    apiCalls,             \* reply / deferReply / editReply calls, in order
    visible,              \* what the user has been shown, in order
    embedDesc             \* description of the embed built at lines 288-292

handlerVars == << hPc, isButton, customId, hasChannel, lang, content,
                  deferred, replied, apiCalls, visible, embedDesc >>

\* what no step of smartTranslate touches besides its arguments
\* ------------------------------------------------------------------------
\* State of the MessageCreate handler and of the channel it answers in
\* ------------------------------------------------------------------------
VARIABLES
    ALLOWED_CHANNELS,     \* process.env.ALLOWED_CHANNELS, split at ','
    messages,             \* the messages created so far, in order
    handled,              \* positions whose MessageCreate event was delivered
    awaiting,             \* positions whose message.reply(...) is awaited
    replyCalls            \* positions message.reply(...) was called for

msgVars == << ALLOWED_CHANNELS, messages, handled, awaiting, replyCalls >>

\* ------------------------------------------------------------------------
\* Two smartTranslate calls in flight: the variables above are the locals of
\* the call that runs, `parked` holds the locals of the suspended one
\* ------------------------------------------------------------------------
VARIABLES
    cur,                  \* the call that runs
    parked                \* arguments and locals of the suspended call

concVars == << cur, parked >>

others == << normVars, handlerVars, msgVars, concVars >>

vars == << DEEPL_KEY, LIBRETRANSLATE_URLS, original, targetDeepL, pc, text,
           targetBase, idx, lastErr, timer, net, calls, inflight, warns,
           body, outcome, result, others >>

env == << DEEPL_KEY, LIBRETRANSLATE_URLS, original, targetDeepL, others >>

NormIdle ==
    /\ nPc = "off" /\ nIn = Undefined /\ nOut1 = Undefined /\ nOut2 = Undefined

HandlerIdle ==
    /\ hPc = "off" /\ isButton = FALSE /\ customId = Undefined
    /\ hasChannel = FALSE /\ lang = Undefined /\ content = Undefined
    /\ deferred = FALSE /\ replied = FALSE /\ apiCalls = <<>>
    /\ visible = <<>> /\ embedDesc = Undefined

MsgIdle ==
    /\ ALLOWED_CHANNELS = <<>> /\ messages = <<>>
    /\ handled = {} /\ awaiting = {} /\ replyCalls = <<>>

NoFrame == [pc |-> "off"]

ConcIdle == cur = 0 /\ parked = NoFrame

OthersIdle == NormIdle /\ HandlerIdle /\ MsgIdle /\ ConcIdle

config == << DEEPL_KEY, LIBRETRANSLATE_URLS >>

callArgs == << original, targetDeepL, pc >>

callLocals == << text, targetBase, idx, lastErr, timer, net, calls, inflight,
                 warns, body, outcome, result >>

NoErr == [tier |-> "none", ep |-> 0, kind |-> "none"]

NoBody == [call |-> 0, tier |-> "none", data |-> [kind |-> "none"]]

\* the payload handed to res.json() of the call awaited now
Payload(tier, data) == [call |-> Len(calls), tier |-> tier, data |-> data]

list == LibreList(LIBRETRANSLATE_URLS)

\* the locals of a smartTranslate call that has not run yet
FreshCall ==
    /\ text = Undefined
    /\ targetBase = Undefined
    /\ idx = 0
    /\ lastErr = NoErr
    /\ timer = "none"
    /\ net = "idle"
    /\ calls = <<>>
    /\ inflight = {}
    /\ warns = <<>>
    /\ body = NoBody
    /\ outcome = "running"
    /\ result = Undefined

Init ==
    /\ DEEPL_KEY \in KeyValues
    /\ LIBRETRANSLATE_URLS \in RawLists
    /\ original \in Originals
    /\ targetDeepL \in TargetCodes
    /\ pc = "start"
    /\ OthersIdle
    /\ text = Undefined
    /\ targetBase = Undefined
    /\ idx = 0
    /\ lastErr = NoErr
    /\ timer = "none"
    /\ net = "idle"
    /\ calls = <<>>
    /\ inflight = {}
    /\ warns = <<>>
    /\ body = NoBody
    /\ outcome = "running"
    /\ result = Undefined

\* ------------------------------------------------------------------------
\* Control transfers shared by the steps
\* ------------------------------------------------------------------------
\* the adapter call awaited now has settled
Settled == inflight \ { Len(calls) }

\* fetch(...) is issued for one adapter call and awaited
Fetch(tier, ep, url, txt, tgt, infl) ==
    /\ calls' = Append(calls, [tier |-> tier, ep |-> ep, url |-> url,
                               text |-> txt, target |-> tgt])
    /\ inflight' = infl \cup { Len(calls) + 1 }
    /\ net' = "pending"

\* variant: the first pool endpoint is started along with DeepL
CallDeepL_raced(txt) ==
    /\ pc' = "deepl_fetch"
    /\ calls' = calls \o
         << [tier |-> "DeepL", ep |-> 0, url |-> <<>>, text |-> txt,
             target |-> targetDeepL],
            [tier |-> "Libre", ep |-> 1, url |-> list[1], text |-> txt,
             target |-> TargetBase(targetDeepL)] >>
    /\ inflight' = inflight \cup { Len(calls) + 1, Len(calls) + 2 }
    /\ net' = "pending"
    /\ UNCHANGED << idx, lastErr, timer, warns, body, outcome, result >>

\* line 177: translateDeepL(text, targetDeepL) up to its await fetch
CallDeepL(txt) ==
    /\ pc' = "deepl_fetch"
    /\ Fetch("DeepL", 0, <<>>, txt, targetDeepL, inflight)
    /\ UNCHANGED << idx, lastErr, timer, warns, body, outcome, result >>

\* variant: the loop tries the same endpoint again
NextIndex_retry(i) == i

\* variant: the loop steps over an endpoint
NextIndex_skip(i) == i + 2

\* the successor of endpoint i in the for-of loop of translateLibre
NextIndex(i) == i + 1

\* lines 148-150 and 108-119: the loop of translateLibre reaches endpoint i;
\* translateLibreAt arms its timeout and awaits fetch
CallLibreAt(i, le, txt, tgt, w, b) ==
    /\ pc' = "libre_fetch"
    /\ idx' = i
    /\ lastErr' = le
    /\ timer' = "armed"
    /\ warns' = w
    /\ body' = b
    /\ Fetch("Libre", i, list[i], txt, tgt, Settled)
    /\ UNCHANGED << outcome, result >>

\* line 183: translateLibre(text, targetBase) is entered
CallLibre(txt, tgt, w, b) == CallLibreAt(1, NoErr, txt, tgt, w, b)

\* line 188: translateGooglePublic(text, targetBase) up to its await fetch
CallGoogle(le, w, tm, b) ==
    /\ pc' = "google_fetch"
    /\ lastErr' = le
    /\ warns' = w
    /\ timer' = tm
    /\ body' = b
    /\ Fetch("Google", 0, <<>>, text, targetBase, Settled)
    /\ UNCHANGED << idx, outcome, result >>

\* a `return` of smartTranslate
Return(v, w, b) ==
    /\ pc' = "done"
    /\ outcome' = "returned"
    /\ result' = v
    /\ warns' = w
    /\ body' = b
    /\ timer' = timer
    /\ inflight' = Settled
    /\ net' = "idle"
    /\ UNCHANGED << idx, lastErr, calls >>

\* what translateLibre throws after its loop (line 156)
LibreThrown(le) ==
    IF le = NoErr THEN [tier |-> "Libre", ep |-> 0, kind |-> "no-endpoint"]
    ELSE le

\* variant: the catch around translateDeepL throws again
DeepLFailed_rethrows(b) ==
    /\ pc' = "done"
    /\ outcome' = "thrown"
    /\ warns' = Append(warns, [by |-> "DeepL", err |-> NoErr])
    /\ body' = b
    /\ inflight' = Settled
    /\ net' = "idle"
    /\ UNCHANGED << idx, lastErr, timer, calls, result >>

\* variant: the pool is handed `original`, not `text`
DeepLFailed_passesOriginal(b) ==
    CallLibre(original, targetBase,
              Append(warns, [by |-> "DeepL", err |-> NoErr]), b)

\* lines 178-180: the catch around translateDeepL, then line 183
DeepLFailed(b) ==
    CallLibre(text, targetBase,
              Append(warns, [by |-> "DeepL", err |-> NoErr]), b)

\* variant: lastErr = lastErr || e
Remember_first(le, e) == IF le = NoErr THEN e ELSE le

\* line 152: lastErr = e
Remember(le, e) == e

\* lines 151-156 and 184-188: translateLibreAt threw e at endpoint idx, its
\* timer left in state tm; the loop goes on, or translateLibre throws and
\* smartTranslate turns to Google.  (The per-endpoint warning is logged
\* without the message text.)
LibreAtFailed(e, tm, b) ==
    LET w  == Append(warns, [by |-> "LibreAt", err |-> [e EXCEPT !.kind = "-"]])
        le == Remember(lastErr, e)
    IN  IF NextIndex(idx) <= Len(list)
        THEN CallLibreAt(NextIndex(idx), le, text, targetBase, w, b)
        ELSE CallGoogle(le, Append(w, [by |-> "Libre", err |-> LibreThrown(le)]),
                        tm, b)

\* variant: the catch returns `original`
GoogleFailed_returnsOriginal(b) ==
    Return(original, Append(warns, [by |-> "Google", err |-> NoErr]), b)

\* lines 189-192: the catch around translateGooglePublic
GoogleFailed(b) ==
    Return(text, Append(warns, [by |-> "Google", err |-> NoErr]), b)

\* variant: the result of translateDeepL is not returned, Libre is tried
DeepLReturned_fallsThrough(data) ==
    CallLibre(text, targetBase, warns, Payload("DeepL", data))

\* line 177: return await translateDeepL(...)
DeepLReturned(data) ==
    Return(DeepLResult(data, text), warns, Payload("DeepL", data))

\* the Error objects thrown by translateLibreAt (and the AbortError of fetch)
LibreErr(kind) == [tier |-> "Libre", ep |-> idx, kind |-> kind]

\* ------------------------------------------------------------------------
\* Steps: one per stretch of code between two awaits
\* ------------------------------------------------------------------------
\* smartTranslate lines 172-177 (or 172-175, 183, 146-150, 108-119)
Begin ==
    /\ pc = "start"
    /\ text' = preProcessText(original)
    /\ targetBase' = TargetBase(targetDeepL)
    /\ IF DeepLEligible(DEEPL_KEY, targetDeepL)
       THEN CallDeepL(text')
       ELSE CallLibre(text', targetBase', warns, body)
    /\ UNCHANGED env

\* the transport of the awaited call stops delivering anything, for ever
NetDies ==
    /\ net = "pending"
    /\ net' = "dead"
    /\ UNCHANGED << env, pc, text, targetBase, idx, lastErr, timer, calls,
                    inflight, warns, body, outcome, result >>

\* translateDeepL line 93: fetch rejects (network failure)
DeepLFetchRejects ==
    /\ pc = "deepl_fetch" /\ net = "pending"
    /\ DeepLFailed(body)
    /\ UNCHANGED << env, text, targetBase >>

\* translateDeepL lines 93-102: the response head arrives
DeepLResponse(ok) ==
    /\ pc = "deepl_fetch" /\ net = "pending"
    /\ IF ok
       THEN /\ pc' = "deepl_json"
            /\ UNCHANGED << idx, lastErr, timer, net, calls, inflight, warns,
                            body, outcome, result >>
       ELSE DeepLFailed(body)
    /\ UNCHANGED << env, text, targetBase >>

\* translateDeepL lines 102-103: res.json() settles
DeepLJson(data) ==
    /\ pc = "deepl_json" /\ net = "pending"
    /\ IF Parses(data)
       THEN DeepLReturned(data)
       ELSE DeepLFailed(Payload("DeepL", data))
    /\ UNCHANGED << env, text, targetBase >>

\* withTimeout line 84: the 8000 ms timer fires, ctrl.abort() makes the
\* awaited fetch reject; lines 120-122 then 151-154
LibreTimeout ==
    /\ timer = "armed"
    /\ pc = "libre_fetch"
    /\ LibreAtFailed(LibreErr("abort"), "fired", body)
    /\ UNCHANGED << env, text, targetBase >>

\* translateLibreAt line 111: fetch rejects (network failure)
LibreFetchRejects ==
    /\ pc = "libre_fetch" /\ net = "pending"
    /\ LibreAtFailed(LibreErr("network"), "cleared", body)
    /\ UNCHANGED << env, text, targetBase >>

\* translateLibreAt lines 111-136: the response head arrives; cancel() clears
\* the timer, then the body is awaited
LibreResponse(ok, json) ==
    /\ pc = "libre_fetch" /\ net = "pending"
    /\ pc' = IF ~ok THEN "libre_text_status"
             ELSE IF ~json THEN "libre_text_ct"
             ELSE "libre_json"
    /\ timer' = "cleared"
    /\ UNCHANGED << env, text, targetBase, idx, lastErr, net, calls, inflight,
                    warns, body, outcome, result >>

\* translateLibreAt lines 125-126 / 131-132: res.text() settles (a rejection
\* is caught), the Error is thrown
LibreErrorText ==
    /\ pc \in { "libre_text_status", "libre_text_ct" } /\ net = "pending"
    /\ LibreAtFailed(LibreErr(IF pc = "libre_text_status" THEN "status"
                              ELSE "content-type"), timer, body)
    /\ UNCHANGED << env, text, targetBase >>

\* translateLibreAt lines 136-142: res.json() settles
LibreJson(data) ==
    /\ pc = "libre_json" /\ net = "pending"
    /\ IF Parses(data)
       THEN Return(LibreResult(data, text), warns, Payload("Libre", data))
       ELSE LibreAtFailed(LibreErr("json"), timer, Payload("Libre", data))
    /\ UNCHANGED << env, text, targetBase >>

\* translateGooglePublic line 163: fetch rejects
GoogleFetchRejects ==
    /\ pc = "google_fetch" /\ net = "pending"
    /\ GoogleFailed(body)
    /\ UNCHANGED << env, text, targetBase >>

\* translateGooglePublic lines 163-165: the response head arrives
GoogleResponse(ok) ==
    /\ pc = "google_fetch" /\ net = "pending"
    /\ IF ok
       THEN /\ pc' = "google_json"
            /\ UNCHANGED << idx, lastErr, timer, net, calls, inflight, warns,
                            body, outcome, result >>
       ELSE GoogleFailed(body)
    /\ UNCHANGED << env, text, targetBase >>

\* translateGooglePublic lines 165-167: res.json() settles
GoogleJson(json) ==
    /\ pc = "google_json" /\ net = "pending"
    /\ IF Parses(json) /\ ~GoogleThrows(json)
       THEN Return(GoogleResult(json, text), warns, Payload("Google", json))
       ELSE GoogleFailed(Payload("Google", json))
    /\ UNCHANGED << env, text, targetBase >>

Next ==
    \/ Begin
    \/ NetDies
    \/ DeepLFetchRejects
    \/ \E ok \in BOOLEAN : DeepLResponse(ok)
    \/ \E data \in DeepLBodies : DeepLJson(data)
    \/ LibreTimeout
    \/ LibreFetchRejects
    \/ \E ok \in BOOLEAN, json \in BOOLEAN : LibreResponse(ok, json)
    \/ LibreErrorText
    \/ \E data \in LibreBodies : LibreJson(data)
    \/ GoogleFetchRejects
    \/ \E ok \in BOOLEAN : GoogleResponse(ok)
    \/ \E json \in GoogleBodies : GoogleJson(json)

Spec == Init /\ [][Next]_vars

\* Every step of the program and of the event loop is eventually taken when
\* it stays possible; only the transport may stop for ever (NetDies).
Fairness ==
    /\ WF_vars(Begin)
    /\ WF_vars(DeepLFetchRejects \/ \E ok \in BOOLEAN : DeepLResponse(ok))
    /\ WF_vars(\E data \in DeepLBodies : DeepLJson(data))
    /\ WF_vars(LibreTimeout)
    /\ WF_vars(LibreFetchRejects
               \/ \E ok \in BOOLEAN, json \in BOOLEAN : LibreResponse(ok, json))
    /\ WF_vars(LibreErrorText)
    /\ WF_vars(\E data \in LibreBodies : LibreJson(data))
    /\ WF_vars(GoogleFetchRejects \/ \E ok \in BOOLEAN : GoogleResponse(ok))
    /\ WF_vars(\E json \in GoogleBodies : GoogleJson(json))

\* the requests the liveness properties are checked on
FairInit ==
    /\ Init
    /\ original = <<"H","i"," ">>
    /\ targetDeepL \in { <<"P","T","-","P","T">>, <<"Z","H","-","T","W">> }

FairSpec == FairInit /\ [][Next]_vars /\ Fairness

\* ------------------------------------------------------------------------
\* Requests for each code a button offers
\* ------------------------------------------------------------------------
FlagCodes == { FLAG_TO_LANG[i] : i \in 1..Len(FLAG_TO_LANG) }

FlagInit ==
    /\ DEEPL_KEY \in KeyValues
    /\ LIBRETRANSLATE_URLS \in { <<>>, << <<"A">>, <<"B"," ">> >> }
    /\ original = <<"H","i"," ">>
    /\ targetDeepL \in FlagCodes
    /\ pc = "start"
    /\ FreshCall
    /\ OthersIdle

FlagSpec == FlagInit /\ [][Next]_vars

\* ------------------------------------------------------------------------
\* preProcessText on its own: one pass, then a second pass on the result
\* ------------------------------------------------------------------------
Spaces(n) == [i \in 1..n |-> " "]

NormBases ==
    { p[1] : p \in dict } \cup { p[2] : p \in dict }
        \cup { <<>>, <<"H","i">>, <<"d","a","n"," ","k","i","e">>,
               <<"D","a","n","k","i","e">>, <<"d","a","n","k","i","e","!">> }

NormInputs ==
    { Spaces(l) \o b \o Spaces(r) :
        b \in NormBases \cup { toUpperCase(c) : c \in NormBases },
        l \in 0..MaxPad, r \in 0..MaxPad }

\* no smartTranslate call is present
NoCall ==
    /\ DEEPL_KEY = Undefined
    /\ LIBRETRANSLATE_URLS = <<>>
    /\ original = Undefined
    /\ targetDeepL = Undefined
    /\ pc = "off"
    /\ FreshCall

NormInit ==
    /\ NoCall
    /\ HandlerIdle /\ MsgIdle /\ ConcIdle
    /\ nPc = "in"
    /\ nIn \in NormInputs
    /\ nOut1 = Undefined
    /\ nOut2 = Undefined

\* preProcessText(nIn)
NormPass1 ==
    /\ nPc = "in"
    /\ nPc' = "once"
    /\ nOut1' = preProcessText(nIn)
    /\ UNCHANGED << nIn, nOut2 >>
    /\ UNCHANGED << config, callArgs, callLocals, handlerVars, msgVars,
                    concVars >>

\* preProcessText(preProcessText(nIn))
NormPass2 ==
    /\ nPc = "once"
    /\ nPc' = "twice"
    /\ nOut2' = preProcessText(nOut1)
    /\ UNCHANGED << nIn, nOut1 >>
    /\ UNCHANGED << config, callArgs, callLocals, handlerVars, msgVars,
                    concVars >>

NormNext == NormPass1 \/ NormPass2

NormSpec == NormInit /\ [][NormNext]_vars

\* ------------------------------------------------------------------------
\* The InteractionCreate handler (a click on a translation button)
\* ------------------------------------------------------------------------
\* s.split(sep)
RECURSIVE split(_, _)
split(s, sep) ==
    IF \E i \in 1..Len(s) : s[i] = sep
    THEN LET i == CHOOSE k \in 1..Len(s) :
                      s[k] = sep /\ \A j \in 1..(k - 1) : s[j] # sep
         IN  << SubSeq(s, 1, i - 1) >> \o split(SubSeq(s, i + 1, Len(s)), sep)
    ELSE << s >>

\* s.startsWith(p)
startsWith(s, p) == Len(s) >= Len(p) /\ SubSeq(s, 1, Len(p)) = p

\* const [, lang, msgId] = custom.split(':')
LangOf(custom) ==
    IF Len(split(custom, ":")) >= 2 THEN split(custom, ":")[2] ELSE Undefined

\* variant: the content is not trimmed
HandlerOriginal_untrimmed(c) == c

\* line 279: originalMsg?.content?.trim()
HandlerOriginal(c) == IF c = Undefined THEN Undefined ELSE trim(c)

\* '*Translation failed.*'
Placeholder ==
    <<"*","T","r","a","n","s","l","a","t","i","o","n"," ",
      "f","a","i","l","e","d",".","*">>

\* variant: the catch always answers with reply
ErrorOp_alwaysReply(d, r) == "reply"

\* line 297: editReply when deferred or replied, reply otherwise
ErrorOp(d, r) == IF d \/ r THEN "editReply" ELSE "reply"

CustomIds ==
    { <<"t","r",":","E","N","-","U","S",":","7">>,
      <<"t","r",":","Z","H","-","T","W",":","7">>,
      <<"x","x",":","E","N","-","U","S",":","7">>,
      <<"t","r",":">> }

\* content of the message channel.messages.fetch resolves to
Contents ==
    { Undefined, <<>>, <<" ">>, <<" ","D","a","n","k","i","e">>,
      <<"u3042","u308A","u304C","u3068","u3046">>, <<"H","i">> }

\* the last response call has settled
ApiSettled(ok) ==
    [apiCalls EXCEPT ![Len(apiCalls)].status = IF ok THEN "ok" ELSE "failed"]

\* a response call is issued; acked: the interaction was deferred or replied
ApiRequest(log, op, what, acked) ==
    Append(log, [op |-> op, what |-> what, status |-> "pending",
                 acked |-> acked])

\* lines 295-301: the catch of the handler, with flags d and r
HandlerCatch(log, d, r) ==
    /\ apiCalls' = ApiRequest(log, ErrorOp(d, r), "error", d \/ r)
    /\ hPc' = IF ErrorOp(d, r) = "editReply" THEN "err_edit" ELSE "err_reply"

HandlerInit ==
    /\ DEEPL_KEY \in KeyValues
    /\ LIBRETRANSLATE_URLS \in { <<>>, << <<"A">>, <<"B"," ">> >> }
    /\ original = Undefined
    /\ targetDeepL = Undefined
    /\ pc = "off"
    /\ FreshCall
    /\ NormIdle /\ MsgIdle /\ ConcIdle
    /\ hPc = "start"
    /\ isButton \in BOOLEAN
    /\ customId \in CustomIds
    /\ hasChannel \in BOOLEAN
    /\ lang = Undefined /\ content = Undefined
    /\ deferred = FALSE /\ replied = FALSE /\ apiCalls = <<>>
    /\ visible = <<>> /\ embedDesc = Undefined

\* lines 262-274: the guards, then channel.messages.fetch(msgId) is awaited
HStart ==
    /\ hPc = "start"
    /\ IF isButton /\ startsWith(customId, <<"t","r",":">>) /\ hasChannel
       THEN hPc' = "fetch" /\ lang' = LangOf(customId)
       ELSE hPc' = "done" /\ lang' = lang
    /\ UNCHANGED << isButton, customId, hasChannel, content, deferred,
                    replied, apiCalls, visible, embedDesc >>
    /\ UNCHANGED << config, callArgs, callLocals, normVars, msgVars,
                    concVars >>

\* lines 275-277: the fetch rejects; `return interaction.reply(...)`
HFetchFails ==
    /\ hPc = "fetch"
    /\ hPc' = "reply_notfound"
    /\ apiCalls' = ApiRequest(apiCalls, "reply", "notfound", FALSE)
    /\ UNCHANGED << isButton, customId, hasChannel, lang, content, deferred,
                    replied, visible, embedDesc >>
    /\ UNCHANGED << config, callArgs, callLocals, normVars, msgVars,
                    concVars >>

\* lines 274-284: the fetch resolves to a message with content c
HFetched(c) ==
    /\ hPc = "fetch"
    /\ content' = c
    /\ IF HandlerOriginal(c) = Undefined \/ HandlerOriginal(c) = <<>>
       THEN /\ hPc' = "reply_notext"
            /\ apiCalls' = ApiRequest(apiCalls, "reply", "notext", FALSE)
       ELSE /\ hPc' = "defer"
            /\ apiCalls' = ApiRequest(apiCalls, "deferReply", "defer", FALSE)
    /\ UNCHANGED << isButton, customId, hasChannel, lang, deferred, replied,
                    visible, embedDesc >>
    /\ UNCHANGED << config, callArgs, callLocals, normVars, msgVars,
                    concVars >>

\* lines 276 / 281: the returned reply settles; its rejection is the
\* rejection of the handler (the promise is returned, not awaited)
HNoticeSettles(ok) ==
    /\ hPc \in { "reply_notfound", "reply_notext" }
    /\ apiCalls' = ApiSettled(ok)
    /\ hPc' = IF ok THEN "done" ELSE "rejected"
    /\ replied' = ok
    /\ visible' = IF ok THEN Append(visible, apiCalls[Len(apiCalls)].what)
                  ELSE visible
    /\ UNCHANGED << isButton, customId, hasChannel, lang, content, deferred,
                    embedDesc >>
    /\ UNCHANGED << config, callArgs, callLocals, normVars, msgVars,
                    concVars >>

\* lines 284-286: deferReply settles; smartTranslate(original, lang) is
\* called, or the catch runs
HDeferSettles(ok) ==
    /\ hPc = "defer"
    /\ deferred' = ok
    /\ IF ok
       THEN /\ hPc' = "translate"
            /\ apiCalls' = ApiSettled(ok)
            /\ original' = HandlerOriginal(content)
            /\ targetDeepL' = lang
            /\ pc' = "start"
       ELSE /\ HandlerCatch(ApiSettled(ok), FALSE, replied)
            /\ UNCHANGED callArgs
    /\ UNCHANGED << isButton, customId, hasChannel, lang, content, replied,
                    visible, embedDesc >>
    /\ UNCHANGED << config, callLocals, normVars, msgVars, concVars >>

\* lines 286-294: smartTranslate has settled; the embed is built (the
\* builder may throw) and editReply is awaited
HTranslated(builds) ==
    /\ hPc = "translate" /\ pc = "done"
    /\ IF outcome = "returned" /\ builds
       THEN /\ embedDesc' = OrElse(result, Placeholder)
            /\ hPc' = "edit"
            /\ apiCalls' = ApiRequest(apiCalls, "editReply", "embed",
                                      deferred \/ replied)
       ELSE /\ embedDesc' = embedDesc
            /\ HandlerCatch(apiCalls, deferred, replied)
    /\ UNCHANGED << isButton, customId, hasChannel, lang, content, deferred,
                    replied, visible >>
    /\ UNCHANGED << config, callArgs, callLocals, normVars, msgVars,
                    concVars >>

\* line 294: editReply with the embed settles
HEditSettles(ok) ==
    /\ hPc = "edit"
    /\ IF ok
       THEN /\ hPc' = "done"
            /\ apiCalls' = ApiSettled(ok)
            /\ visible' = Append(visible, "embed")
       ELSE /\ HandlerCatch(ApiSettled(ok), deferred, replied)
            /\ visible' = visible
    /\ UNCHANGED << isButton, customId, hasChannel, lang, content, deferred,
                    replied, embedDesc >>
    /\ UNCHANGED << config, callArgs, callLocals, normVars, msgVars,
                    concVars >>

\* lines 298 / 300: the error message settles; a rejection is swallowed
HErrorSettles(ok) ==
    /\ hPc \in { "err_edit", "err_reply" }
    /\ hPc' = "done"
    /\ apiCalls' = ApiSettled(ok)
    /\ replied' = (replied \/ (ok /\ hPc = "err_reply"))
    /\ visible' = IF ok THEN Append(visible, "error") ELSE visible
    /\ UNCHANGED << isButton, customId, hasChannel, lang, content, deferred,
                    embedDesc >>
    /\ UNCHANGED << config, callArgs, callLocals, normVars, msgVars,
                    concVars >>

HandlerNext ==
    \/ HStart
    \/ HFetchFails
    \/ \E c \in Contents : HFetched(c)
    \/ \E ok \in BOOLEAN : HNoticeSettles(ok)
    \/ \E ok \in BOOLEAN : HDeferSettles(ok)
    \/ \E builds \in BOOLEAN : HTranslated(builds)
    \/ \E ok \in BOOLEAN : HEditSettles(ok)
    \/ \E ok \in BOOLEAN : HErrorSettles(ok)
    \/ Next

HandlerSpec == HandlerInit /\ [][HandlerNext]_vars

\* ------------------------------------------------------------------------
\* The MessageCreate handler (a control message with the flag buttons)
\* ------------------------------------------------------------------------
\* lines 42-44: ALLOWED_CHANNELS.split(',').map(trim).filter(Boolean)
CHANNEL_ALLOWLIST ==
    { trim(ALLOWED_CHANNELS[i]) : i \in 1..Len(ALLOWED_CHANNELS) } \ { <<>> }

\* lines 62-65; channel is channel?.id
isAllowedChannel(channel) ==
    IF CHANNEL_ALLOWLIST = {} THEN TRUE ELSE channel \in CHANNEL_ALLOWLIST

\* lines 196-200
RECURSIVE chunk(_, _)
chunk(arr, size) ==
    IF arr = <<>> THEN <<>>
    ELSE IF Len(arr) <= size THEN << arr >>
         ELSE << SubSeq(arr, 1, size) >>
                  \o chunk(SubSeq(arr, size + 1, Len(arr)), size)

\* lines 203-229: rows of at most five buttons, at most two rows; a button
\* is given by the language code of its custom id
buildFlagRows ==
    LET groups == chunk(FLAG_TO_LANG, 5)
    IN  SubSeq(groups, 1, IF Len(groups) < 2 THEN Len(groups) ELSE 2)

\* 'Translate this message:'
ControlText ==
    <<"T","r","a","n","s","l","a","t","e"," ","t","h","i","s"," ",
      "m","e","s","s","a","g","e",":">>

\* a message a user posts in channel A of a guild
UserMessage ==
    [author |-> "user", guild |-> TRUE, channel |-> <<"A">>,
     content |-> <<"H","i">>, replyTo |-> 0, rows |-> 0]

\* the messages that users, other bots and webhooks create
PostedMessages ==
    { [UserMessage EXCEPT !.author = a] : a \in { "user", "bot", "none" } }
    \cup { [UserMessage EXCEPT !.guild = FALSE] }
    \cup { [UserMessage EXCEPT !.channel = c] : c \in { <<"C">>, Undefined } }
    \cup { [UserMessage EXCEPT !.content = c] :
              c \in { Undefined, <<>>, <<" ">>, <<" ","D","a","n","k","i","e">> } }

\* the message that message.reply(...) of the handler creates
ControlMessage(i) ==
    [author |-> "self", guild |-> messages[i].guild,
     channel |-> messages[i].channel, content |-> ControlText,
     replyTo |-> i, rows |-> Len(buildFlagRows)]

AllowRaws ==
    { << <<>> >>, << <<" ">> >>, << <<"A">>, <<"B"," ">> >> }

\* variant: the author is not looked at
IsBot_never(m) == FALSE

\* line 234: message.author?.bot
IsBot(m) == m.author \in { "bot", "self" }

\* lines 234-237: the four guards let message m through
PassesGuards(m) ==
    /\ ~IsBot(m)
    /\ m.guild /\ m.channel # Undefined
    /\ isAllowedChannel(m.channel)
    /\ ~(m.content = Undefined \/ trim(m.content) = <<>>)

Posted == { i \in 1..Len(messages) : messages[i].author # "self" }

MsgInit ==
    /\ NoCall
    /\ NormIdle /\ HandlerIdle /\ ConcIdle
    /\ ALLOWED_CHANNELS \in AllowRaws
    /\ messages = <<>>
    /\ handled = {} /\ awaiting = {} /\ replyCalls = <<>>

\* somebody else creates message m
MessagePosted(m) ==
    /\ Cardinality(Posted) < MaxMessages
    /\ messages' = Append(messages, m)
    /\ UNCHANGED << ALLOWED_CHANNELS, handled, awaiting, replyCalls >>
    /\ UNCHANGED << config, callArgs, callLocals, normVars, handlerVars,
                    concVars >>

\* lines 232-257: the event of message i is delivered; the handler runs to
\* its return or to `await message.reply(...)`
MessageCreate(i) ==
    /\ i \in (1..Len(messages)) \ handled
    /\ handled' = handled \cup { i }
    /\ IF PassesGuards(messages[i])
       THEN /\ replyCalls' = Append(replyCalls, i)
            /\ awaiting' = awaiting \cup { i }
       ELSE UNCHANGED << replyCalls, awaiting >>
    /\ UNCHANGED << ALLOWED_CHANNELS, messages >>
    /\ UNCHANGED << config, callArgs, callLocals, normVars, handlerVars,
                    concVars >>

\* lines 243-254: message.reply(...) settles; a rejection is caught and
\* logged (line 256)
ReplySettles(i, ok) ==
    /\ i \in awaiting
    /\ awaiting' = awaiting \ { i }
    /\ IF ok
       THEN /\ Len(messages) <= 2 * MaxMessages
            /\ messages' = Append(messages, ControlMessage(i))
       ELSE messages' = messages
    /\ UNCHANGED << ALLOWED_CHANNELS, handled, replyCalls >>
    /\ UNCHANGED << config, callArgs, callLocals, normVars, handlerVars,
                    concVars >>

MsgNext ==
    \/ \E m \in PostedMessages : MessagePosted(m)
    \/ \E i \in 1..Len(messages) : MessageCreate(i)
    \/ \E i \in awaiting, ok \in BOOLEAN : ReplySettles(i, ok)

MsgSpec == MsgInit /\ [][MsgNext]_vars

\* ------------------------------------------------------------------------
\* Two requests whose steps interleave at their awaits
\* ------------------------------------------------------------------------
\* arguments and locals of the smartTranslate call that runs
Frame ==
    [original |-> original, targetDeepL |-> targetDeepL, pc |-> pc,
     text |-> text, targetBase |-> targetBase, idx |-> idx,
     lastErr |-> lastErr, timer |-> timer, net |-> net, calls |-> calls,
     inflight |-> inflight, warns |-> warns, body |-> body,
     outcome |-> outcome, result |-> result]

\* a call smartTranslate(o, t) that has not run yet
FreshFrame(o, t) ==
    [original |-> o, targetDeepL |-> t, pc |-> "start",
     text |-> Undefined, targetBase |-> Undefined, idx |-> 0,
     lastErr |-> NoErr, timer |-> "none", net |-> "idle", calls |-> <<>>,
     inflight |-> {}, warns |-> <<>>, body |-> NoBody,
     outcome |-> "running", result |-> Undefined]

\* the arguments of the two calls
ConcArgs ==
    << [original |-> <<"u3042","u308A","u304C","u3068","u3046">>,
        targetDeepL |-> <<"P","T","-","P","T">>],
       [original |-> <<"H","i"," ">>,
        targetDeepL |-> <<"Z","H","-","T","W">>] >>

\* variant: `text` is one variable of the module, shared by the calls
Load_sharedText(f) == [f EXCEPT !.text = text]

\* lines 171-173, 146-147, 83-85: text, targetBase, lastErr, the index of the
\* loop and the abort timer are locals of the call they belong to
Load(f) == f

ConcInit ==
    /\ DEEPL_KEY = <<"k","e","y">>
    /\ LIBRETRANSLATE_URLS = << <<"A">> >>
    /\ original = ConcArgs[1].original
    /\ targetDeepL = ConcArgs[1].targetDeepL
    /\ pc = "start"
    /\ FreshCall
    /\ NormIdle /\ HandlerIdle /\ MsgIdle
    /\ cur = 1
    /\ parked = FreshFrame(ConcArgs[2].original, ConcArgs[2].targetDeepL)

\* the call that runs is suspended at its await (or has settled) and the
\* event loop resumes the other one
Switch ==
    /\ cur \in { 1, 2 }
    /\ cur' = 3 - cur
    /\ parked' = Frame
    /\ original' = Load(parked).original
    /\ targetDeepL' = Load(parked).targetDeepL
    /\ pc' = Load(parked).pc
    /\ text' = Load(parked).text
    /\ targetBase' = Load(parked).targetBase
    /\ idx' = Load(parked).idx
    /\ lastErr' = Load(parked).lastErr
    /\ timer' = Load(parked).timer
    /\ net' = Load(parked).net
    /\ calls' = Load(parked).calls
    /\ inflight' = Load(parked).inflight
    /\ warns' = Load(parked).warns
    /\ body' = Load(parked).body
    /\ outcome' = Load(parked).outcome
    /\ result' = Load(parked).result
    /\ UNCHANGED << config, normVars, handlerVars, msgVars >>

ConcNext == Next \/ Switch

ConcSpec == ConcInit /\ [][ConcNext]_vars

\* ------------------------------------------------------------------------
\* Vocabulary of the properties
\* ------------------------------------------------------------------------
Tiers == { "DeepL", "Libre", "Google" }

\* tier t was called in this request
Attempted(t) == \E i \in 1..Len(calls) : calls[i].tier = t

\* the orchestrator caught a failure of tier t
TierFailed(t) == \E i \in 1..Len(warns) : warns[i].by = t

\* pool endpoint j failed inside translateLibre
EndpointFailed(j) ==
    \E i \in 1..Len(warns) : warns[i].by = "LibreAt" /\ warns[i].err.ep = j

IsLibreCall(c) == c.tier = "Libre"

LibreCalls == SelectSeq(calls, IsLibreCall)

CallsOf(t) == { i \in 1..Len(calls) : calls[i].tier = t }

KeyConfigured == DEEPL_KEY # Undefined /\ DEEPL_KEY # <<>>

CodeSupported == toUpperCase(targetDeepL) \in DEEPL_SUPPORTED_TARGETS

\* b is c cut at its first '-' and lowercased
IsBaseCode(b, c) ==
    \E n \in 0..Len(c) :
        /\ \A j \in 1..n : c[j] # "-"
        /\ n = Len(c) \/ c[n + 1] = "-"
        /\ Len(b) = n
        /\ \A j \in 1..n : b[j] = LowerChar(c[j])

IsString(v) == v # Undefined /\ DOMAIN v = 1..Len(v)

\* a parsed payload without the translation its tier expects
Malformed(b) ==
    \/ /\ b.tier = "DeepL"
       /\ \/ b.data.kind \in { "null", "notranslations" }
          \/ b.data.kind = "obj" /\ b.data.translations = <<>>
          \/ /\ b.data.kind = "obj" /\ b.data.translations # <<>>
             /\ b.data.translations[1].text = Undefined
    \/ /\ b.tier = "Libre"
       /\ \/ b.data.kind = "null"
          \/ b.data.kind = "obj" /\ b.data.translatedText = Undefined
    \/ /\ b.tier = "Google"
       /\ \/ b.data.kind \in { "null", "nofirst" }
          \/ /\ b.data.kind = "arr"
             /\ \A i \in 1..Len(b.data.first) :
                    b.data.first[i] \in { Undefined, <<>> }

\* ------------------------------------------------------------------------
\* C1 - Total availability: smartTranslate never throws; what it returns is
\* a string; and when every tier it attempted has failed, the value returned
\* is exactly the normalized original text.
\* ------------------------------------------------------------------------
AllAttemptedFailed == \A t \in Tiers : Attempted(t) => TierFailed(t)

C1_TotalAvailability ==
    /\ outcome \in { "running", "returned" }
    /\ (pc = "done") <=> (outcome = "returned")
    /\ outcome = "returned" =>
          /\ IsString(result)
          /\ AllAttemptedFailed => result = preProcessText(original)

C1_Witness ==
    /\ outcome = "returned"
    /\ \A t \in Tiers : Attempted(t) /\ TierFailed(t)
    /\ result = preProcessText(original)
    /\ result # original

\* ------------------------------------------------------------------------
\* C2 - Strict precedence: with a key configured and the uppercased code
\* supported, once the DeepL call has succeeded no Libre endpoint and no
\* Google call is made, and the result is what translateDeepL returned.
\* ------------------------------------------------------------------------
PrimarySucceeded ==
    /\ body.tier = "DeepL" /\ Parses(body.data)
    /\ ~TierFailed("DeepL")

C2_StrictPrecedence ==
    (KeyConfigured /\ CodeSupported /\ PrimarySucceeded) =>
        /\ Len(calls) = 1 /\ calls[1].tier = "DeepL"
        /\ outcome = "returned"
        /\ result = OrElse(DeepLExtract(body.data), text)

C2_Witness ==
    /\ KeyConfigured /\ CodeSupported /\ PrimarySucceeded
    /\ outcome = "returned"
    /\ result \in Translations
    /\ CallsOf("Libre") = {} /\ CallsOf("Google") = {}

\* ------------------------------------------------------------------------
\* C3 - Fallback on primary failure: when DeepL was eligible and its call
\* failed, the next outbound call goes to the first pool endpoint, with the
\* target cut at its first '-' and lowercased ("PT-PT" gives "pt").
\* ------------------------------------------------------------------------
C3_FallbackOnPrimaryFailure ==
    (KeyConfigured /\ CodeSupported /\ TierFailed("DeepL")) =>
        /\ Len(calls) >= 2
        /\ calls[1].tier = "DeepL"
        /\ calls[2].tier = "Libre" /\ calls[2].ep = 1
        /\ calls[2].url = list[1]
        /\ IsBaseCode(calls[2].target, targetDeepL)
        /\ targetDeepL = <<"P","T","-","P","T">> =>
               calls[2].target = <<"p","t">>

C3_Witness ==
    /\ KeyConfigured /\ TierFailed("DeepL")
    /\ targetDeepL = <<"P","T","-","P","T">>
    /\ Len(calls) = 2 /\ calls[2].tier = "Libre" /\ calls[2].ep = 1
    /\ calls[2].target = <<"p","t">>

\* ------------------------------------------------------------------------
\* C4 - Skipping Primary: without a key, or with a code whose uppercase is
\* not in the supported set (e.g. "ZH-TW"), DeepL is never called and the
\* first outbound call is the first pool endpoint with the base code ("zh").
\* ------------------------------------------------------------------------
C4_SkippingPrimary ==
    (pc # "start" /\ (~KeyConfigured \/ ~CodeSupported)) =>
        /\ CallsOf("DeepL") = {}
        /\ Len(calls) >= 1
        /\ calls[1].tier = "Libre" /\ calls[1].ep = 1
        /\ calls[1].url = list[1]
        /\ IsBaseCode(calls[1].target, targetDeepL)
        /\ targetDeepL = <<"Z","H","-","T","W">> =>
               calls[1].target = <<"z","h">>

C4_Witness ==
    /\ KeyConfigured
    /\ targetDeepL = <<"Z","H","-","T","W">>
    /\ outcome = "returned"
    /\ CallsOf("DeepL") = {}
    /\ calls[1].tier = "Libre" /\ calls[1].target = <<"z","h">>

\* ------------------------------------------------------------------------
\* C5 - Pool exhaustion: when endpoints 1..k-1 of the pool failed and
\* endpoint k answered, translateLibre returns k's translated text, endpoints
\* 1..k-1 were each attempted exactly once and in pool order, and no endpoint
\* after k (and no later tier) is attempted.
\* ------------------------------------------------------------------------
PoolAnswered ==
    /\ body.tier = "Libre" /\ Parses(body.data)
    /\ body.call = Len(calls)

C5_PoolExhaustion ==
    PoolAnswered =>
        LET lc == LibreCalls
            k  == Len(lc)
        IN  /\ outcome = "returned"
            /\ k \in 1..Len(list)
            /\ \A j \in 1..k : lc[j].ep = j /\ lc[j].url = list[j]
            /\ \A j \in 1..Len(list) : EndpointFailed(j) <=> j < k
            /\ calls[Len(calls)] = lc[k]
            /\ CallsOf("Google") = {}
            /\ body.data.translatedText \in Translations =>
                   result = body.data.translatedText

C5_Witness ==
    /\ PoolAnswered
    /\ Len(list) = 3 /\ list[1] # list[2]
    /\ Len(LibreCalls) = 3
    /\ EndpointFailed(1) /\ EndpointFailed(2)
    /\ result \in Translations

\* ------------------------------------------------------------------------
\* C6 - Pooled failure only after exhaustion: translateLibre throws to
\* smartTranslate only when every endpoint of the pool has been attempted
\* and has failed, and the error it throws is the one of the last endpoint.
\* ------------------------------------------------------------------------
LibreKinds == { "abort", "network", "status", "content-type", "json" }

C6_PooledFailureAfterExhaustion ==
    \A i \in 1..Len(warns) :
        warns[i].by = "Libre" =>
            /\ Len(LibreCalls) = Len(list)
            /\ \A j \in 1..Len(list) :
                   /\ LibreCalls[j].ep = j
                   /\ \E h \in 1..(i - 1) :
                          warns[h].by = "LibreAt" /\ warns[h].err.ep = j
            /\ warns[i].err.tier = "Libre"
            /\ warns[i].err.ep = Len(list)
            /\ warns[i].err.kind \in LibreKinds

C6_Witness ==
    /\ TierFailed("Libre")
    /\ Len(list) = 3
    /\ \A j \in 1..3 : EndpointFailed(j)
    /\ lastErr.ep = 3
    /\ Attempted("Google")

\* ------------------------------------------------------------------------
\* C7 - Per-endpoint timeout isolation: an attempt at a pool endpoint that
\* does not finish, whether the response head or the response body is
\* missing, is ended by the 8 s timeout, so that every attempt is eventually
\* over (translateLibre returns or moves on to the next endpoint).
\* ------------------------------------------------------------------------
LibrePcs == { "libre_fetch", "libre_text_status", "libre_text_ct",
              "libre_json" }

AttemptRunning(i) == pc \in LibrePcs /\ idx = i

C7_TimeoutIsolation ==
    \A i \in 1..MaxRaw : AttemptRunning(i) ~> ~AttemptRunning(i)

\* the part of C7 the code provides: an attempt waiting for the response
\* head is always ended
C7_HeadPhaseBounded ==
    \A i \in 1..MaxRaw :
        (pc = "libre_fetch" /\ idx = i) ~> ~(pc = "libre_fetch" /\ idx = i)

\* the state C7 fails in: the body is awaited on a dead transport while the
\* timer has been cleared
C7_BodyHangs == pc \in LibrePcs /\ net = "dead" /\ timer = "cleared"

\* ------------------------------------------------------------------------
\* C8 - Malformed-200 degrade: when a tier answers with a success status
\* and a payload without the expected translation (or without surviving
\* segments), the request returns the normalized original text, the tier is
\* not counted as failed, and no later endpoint or tier is attempted.
\* ------------------------------------------------------------------------
AnsweringTierFailed ==
    \/ body.tier = "DeepL" /\ TierFailed("DeepL")
    \/ body.tier = "Libre" /\
          (TierFailed("Libre") \/ EndpointFailed(calls[body.call].ep))
    \/ body.tier = "Google" /\ TierFailed("Google")

C8_MalformedDegrade ==
    Malformed(body) =>
        /\ outcome = "returned"
        /\ body.call = Len(calls)
        /\ calls[body.call].tier = body.tier
        /\ result = preProcessText(original)
        /\ ~AnsweringTierFailed

C8_Witness ==
    /\ Malformed(body) /\ body.tier = "Libre"
    /\ outcome = "returned"
    /\ Len(list) >= 2 /\ Len(LibreCalls) = 1
    /\ CallsOf("Google") = {}
    /\ result = preProcessText(original) /\ result # original

\* ------------------------------------------------------------------------
\* C9 - Strictly sequential calls: at most one outbound call is in flight at
\* any moment; a call is started only after the one before it has failed;
\* Google is started only after every pool endpoint has failed.
\* ------------------------------------------------------------------------
FailedCall(i) ==
    \/ calls[i].tier = "DeepL" /\ TierFailed("DeepL")
    \/ calls[i].tier = "Libre" /\ EndpointFailed(calls[i].ep)
    \/ calls[i].tier = "Google" /\ TierFailed("Google")

C9_StrictlySequential ==
    /\ Cardinality(inflight) <= 1
    /\ inflight \subseteq { Len(calls) }
    /\ \A i \in 1..(Len(calls) - 1) : FailedCall(i)
    /\ Attempted("Google") =>
          /\ TierFailed("Libre")
          /\ \A j \in 1..Len(list) : EndpointFailed(j)

C9_Witness ==
    /\ Len(calls) = 5
    /\ calls[1].tier = "DeepL" /\ calls[5].tier = "Google"
    /\ inflight = { 5 }
    /\ \A i \in 1..4 : FailedCall(i)

\* ------------------------------------------------------------------------
\* C10 - No retry: in one request DeepL is called at most once, translateLibre
\* is entered at most once and calls each pool position at most once, Google
\* is called at most once.
\* ------------------------------------------------------------------------
C10_NoRetry ==
    /\ Cardinality(CallsOf("DeepL")) <= 1
    /\ Cardinality(CallsOf("Google")) <= 1
    /\ \A i \in CallsOf("Libre") : calls[i].ep \in 1..Len(list)
    /\ \A i \in CallsOf("Libre"), j \in CallsOf("Libre") :
           calls[i].ep = calls[j].ep => i = j
    /\ Len(calls) <= 1 + Len(list) + 1

C10_Witness ==
    /\ outcome = "returned"
    /\ Len(list) = 3
    /\ Len(calls) = 5
    /\ \A t \in Tiers : TierFailed(t)

\* ------------------------------------------------------------------------
\* C11 - Arguments passed down the chain: every adapter call gets the
\* normalized original text; DeepL gets the target code as given, every pool
\* endpoint and Google get the base code.  The kana for "arigatou" with
\* target "EN-US" reaches DeepL as "thank you", and the answer of DeepL is
\* the result.
\* ------------------------------------------------------------------------
Arigatou == <<"u3042","u308A","u304C","u3068","u3046">>

C11_ArgumentsPassedDown ==
    /\ \A i \in 1..Len(calls) :
          /\ calls[i].text = preProcessText(original)
          /\ calls[i].tier = "DeepL" => calls[i].target = targetDeepL
          /\ calls[i].tier \in { "Libre", "Google" } =>
                 IsBaseCode(calls[i].target, targetDeepL)
    /\ (original = Arigatou /\ targetDeepL = <<"E","N","-","U","S">>
           /\ KeyConfigured /\ pc # "start") =>
          /\ calls[1].tier = "DeepL"
          /\ calls[1].text = <<"t","h","a","n","k"," ","y","o","u">>
          /\ calls[1].target = <<"E","N","-","U","S">>
          /\ (PrimarySucceeded /\ DeepLExtract(body.data) \in Translations) =>
                 result = DeepLExtract(body.data)

C11_Witness ==
    /\ original = Arigatou /\ targetDeepL = <<"E","N","-","U","S">>
    /\ KeyConfigured /\ PrimarySucceeded
    /\ calls[1].text = <<"t","h","a","n","k"," ","y","o","u">>
    /\ outcome = "returned"
    /\ result = <<"T","h","x","!">>

\* ------------------------------------------------------------------------
\* C13 - Normalizer result: preProcessText returns the replacement of the
\* table when the trimmed, lowercased text is a key, and otherwise the text
\* exactly as given (untrimmed, original case); it always returns a string.
\* ------------------------------------------------------------------------
LookupKey(s) == toLowerCase(trim(s))

C13_NormalizerResult ==
    nPc \in { "once", "twice" } =>
        /\ IsString(nOut1)
        /\ \A p \in dict : p[1] = LookupKey(nIn) => nOut1 = p[2]
        /\ (\A p \in dict : p[1] # LookupKey(nIn)) => nOut1 = nIn

C13_Witness ==
    /\ nPc = "once"
    /\ nIn # trim(nIn) /\ trim(nIn) # LookupKey(nIn)
    /\ LookupKey(nIn) = <<"d","a","n","k","i","e">>
    /\ nOut1 = <<"t","h","a","n","k"," ","y","o","u">>

\* a miss on an untrimmed, mixed-case text
C13_WitnessMiss ==
    /\ nPc = "once"
    /\ nIn # trim(nIn) /\ trim(nIn) # LookupKey(nIn)
    /\ \A p \in dict : p[1] # LookupKey(nIn)
    /\ nOut1 = nIn

\* ------------------------------------------------------------------------
\* C14 - Normalizer idempotence: the second pass either hits the table again
\* or leaves the result of the first pass as it is; with the compiled-in
\* table, where no replacement is a key, the second pass changes nothing.
\* ------------------------------------------------------------------------
C14_NormalizerIdempotent ==
    nPc = "twice" =>
        /\ \/ \E p \in dict : p[1] = LookupKey(nOut1) /\ nOut2 = p[2]
           \/ nOut2 = nOut1
        /\ nOut2 = nOut1

C14_Witness ==
    /\ nPc = "twice"
    /\ nOut1 # nIn
    /\ nOut1 = <<"h","e","l","l","o">>
    /\ nOut2 = nOut1

\* ------------------------------------------------------------------------
\* C16 - Termination of translate: provided no outbound call stays for ever
\* without completing, failing or being aborted, every request eventually
\* returns, after at most one DeepL call, one call per pool endpoint and one
\* Google call.
\* ------------------------------------------------------------------------
C16_Termination ==
    /\ [](Len(calls) <= 1 + Len(list) + 1)
    /\ []<>(net # "dead") => <>(outcome = "returned")

C16_Witness ==
    /\ outcome = "returned"
    /\ Len(list) = 3
    /\ Len(calls) = 1 + Len(list) + 1
    /\ timer = "fired"

\* ------------------------------------------------------------------------
\* C17 - Supported-set asymmetry is limited to one variant: with a key
\* configured, "ZH-TW" is the only code of FLAG_TO_LANG for which DeepL is
\* skipped; for every other offered code DeepL is attempted first.
\* ------------------------------------------------------------------------
ZhTw == <<"Z","H","-","T","W">>

C17_OnlyZhTwSkipsPrimary ==
    (KeyConfigured /\ targetDeepL \in FlagCodes /\ pc # "start") =>
        (calls[1].tier # "DeepL" <=> targetDeepL = ZhTw)

\* what the code does: DeepL is skipped for four of the nine offered codes
C17_SkippedFlagCodes ==
    (KeyConfigured /\ targetDeepL \in FlagCodes /\ pc # "start") =>
        (calls[1].tier # "DeepL" <=>
            targetDeepL \in { ZhTw, <<"I","N">>, <<"K","R">>, <<"J","P">> })

\* the button for Japanese, with a key configured, goes straight to the pool
C17_JapaneseSkipsPrimary ==
    /\ KeyConfigured /\ targetDeepL = <<"J","P">>
    /\ Len(calls) >= 1
    /\ calls[1].tier = "Libre" /\ calls[1].target = <<"j","p">>

\* ------------------------------------------------------------------------
\* C12 - Orchestrator entry invariant: the button handler calls
\* smartTranslate only with an original that is non-empty and trimmed, namely
\* the trimmed content of the fetched message; after a failed fetch or a
\* fetched message without text the orchestrator is never entered.
\* ------------------------------------------------------------------------
Noticed ==
    \E i \in 1..Len(apiCalls) : apiCalls[i].what \in { "notfound", "notext" }

C12_EntryInvariant ==
    /\ pc # "off" =>
          /\ original # Undefined /\ original # <<>>
          /\ original = trim(original)
          /\ content # Undefined /\ original = trim(content)
          /\ ~Noticed
    /\ Noticed => pc = "off" /\ calls = <<>>

C12_Witness ==
    /\ pc = "start" /\ hPc = "translate"
    /\ content = <<" ","D","a","n","k","i","e">>
    /\ original = <<"D","a","n","k","i","e">>

C12_WitnessBlank ==
    /\ content = <<" ">> /\ hPc = "reply_notext" /\ pc = "off"

\* ------------------------------------------------------------------------
\* C18 - Interaction reply protocol.
\* ------------------------------------------------------------------------
Relevant == isButton /\ startsWith(customId, <<"t","r",":">>) /\ hasChannel

InitialResponses ==
    { i \in 1..Len(apiCalls) : apiCalls[i].op \in { "reply", "deferReply" } }

HandlerEnded == hPc \in { "done", "rejected" }

\* C18 as stated: at most one initial response is made, editReply is called
\* only after the interaction was deferred or replied, reply is never called
\* after a deferReply, and a handled button click ends with exactly one
\* visible outcome.
C18_ReplyProtocol ==
    /\ Cardinality(InitialResponses) <= 1
    /\ \A i \in 1..Len(apiCalls) : apiCalls[i].op = "editReply" => apiCalls[i].acked
    /\ \A i \in 1..Len(apiCalls), j \in 1..Len(apiCalls) :
           (i < j /\ apiCalls[i].op = "deferReply") => apiCalls[j].op # "reply"
    /\ (Relevant /\ HandlerEnded) => Len(visible) = 1

\* C18 amended: at most one initial response succeeds; a second initial
\* response is made only as the error reply that follows a failed deferReply;
\* editReply is called only after the interaction was deferred or replied;
\* reply is never called after a deferReply that succeeded; the user sees at
\* most one outcome, and when the handler has ended the user sees the message
\* of the last response call if that call succeeded and nothing otherwise.
C18_ReplyProtocolAmended ==
    /\ Cardinality({ i \in InitialResponses : apiCalls[i].status = "ok" }) <= 1
    /\ \A j \in InitialResponses :
           j > 1 => /\ j = 2
                    /\ apiCalls[1].op = "deferReply"
                    /\ apiCalls[1].status = "failed"
                    /\ apiCalls[2].op = "reply" /\ apiCalls[2].what = "error"
    /\ \A i \in 1..Len(apiCalls) : apiCalls[i].op = "editReply" => apiCalls[i].acked
    /\ \A i \in 1..Len(apiCalls), j \in 1..Len(apiCalls) :
           (i < j /\ apiCalls[i].op = "deferReply" /\ apiCalls[i].status = "ok")
               => apiCalls[j].op # "reply"
    /\ Len(visible) <= 1
    /\ (Relevant /\ HandlerEnded) =>
          /\ apiCalls # <<>>
          /\ visible = IF apiCalls[Len(apiCalls)].status = "ok"
                       THEN << apiCalls[Len(apiCalls)].what >> ELSE <<>>
    /\ (~Relevant) => apiCalls = <<>> /\ visible = <<>>

\* deferReply failed and the error message went out as a reply
C18_Witness ==
    /\ hPc = "done" /\ Len(apiCalls) = 2
    /\ apiCalls[1].op = "deferReply" /\ apiCalls[1].status = "failed"
    /\ apiCalls[2].op = "reply" /\ apiCalls[2].status = "ok"
    /\ visible = << "error" >>

\* the embed could not be sent and the error message replaced it
C18_WitnessEditFails ==
    /\ hPc = "done" /\ Len(apiCalls) = 3
    /\ apiCalls[2].what = "embed" /\ apiCalls[2].status = "failed"
    /\ apiCalls[3].op = "editReply" /\ apiCalls[3].status = "ok"
    /\ visible = << "error" >>

\* ------------------------------------------------------------------------
\* C20 - Non-empty result: for a non-empty trimmed original, whatever the
\* providers answer (an empty translation included), smartTranslate returns a
\* non-empty string and the embed never shows the placeholder.
\* ------------------------------------------------------------------------
C20_NonEmptyResult ==
    /\ (/\ pc = "done" /\ outcome = "returned"
        /\ original # <<>> /\ original = trim(original)) =>
           IsString(result) /\ result # <<>>
    /\ embedDesc # Placeholder

\* Google answered only empty segments and the embed shows the text
C20_Witness ==
    /\ hPc = "edit" /\ outcome = "returned"
    /\ body # NoBody /\ body.tier = "Google"
    /\ body.data.kind = "arr" /\ body.data.first = << <<>>, Undefined >>
    /\ result = text /\ embedDesc = text

\* the pool answered an empty translation
C20_WitnessLibre ==
    /\ hPc = "edit" /\ outcome = "returned"
    /\ body # NoBody /\ body.tier = "Libre"
    /\ body.data.kind = "obj" /\ body.data.translatedText = <<>>
    /\ embedDesc = text

\* ------------------------------------------------------------------------
\* C19 - No reply loop: message.reply is called only for a message that is
\* not bot-authored (the bot's own control messages included), is in a guild
\* and a channel, is in an allowed channel when the allowlist is not empty,
\* and has non-blank content; it is called at most once per message, and no
\* control message answers a control message.
\* ------------------------------------------------------------------------
C19_NoReplyLoop ==
    /\ \A k \in 1..Len(replyCalls) :
          LET t == messages[replyCalls[k]]
          IN  /\ t.author \notin { "bot", "self" }
              /\ t.guild /\ t.channel # Undefined
              /\ CHANNEL_ALLOWLIST # {} => t.channel \in CHANNEL_ALLOWLIST
              /\ t.content # Undefined /\ trim(t.content) # <<>>
    /\ \A k \in 1..Len(replyCalls), l \in 1..Len(replyCalls) :
          replyCalls[k] = replyCalls[l] => k = l
    /\ \A i \in 1..Len(messages) :
          messages[i].author = "self" =>
              /\ messages[i].replyTo \in Posted
              /\ \A j \in 1..Len(messages) :
                     (messages[j].author = "self"
                      /\ messages[j].replyTo = messages[i].replyTo) => j = i
    /\ Len(messages) - Cardinality(Posted) <= Cardinality(Posted)

\* the event of a control message was delivered and nothing followed
C19_Witness ==
    /\ CHANNEL_ALLOWLIST # {}
    /\ \E i \in handled : messages[i].author = "self"
    /\ handled = 1..Len(messages) /\ awaiting = {}
    /\ Len(replyCalls) = 1
    /\ Cardinality(Posted) = MaxMessages

\* ------------------------------------------------------------------------
\* C15 - Request isolation: with the steps of two requests interleaved in
\* any order, every call of a request carries that request's own text and
\* target, its result is the one its own arguments and the payload it
\* received give, a step of one request leaves the other untouched, a switch
\* between them loses nothing, and the configuration is never modified.
\* ------------------------------------------------------------------------
\* what a call with the arguments and the payload of frame f returns alone
SoloResult(f) ==
    LET txt == preProcessText(f.original)
    IN  IF f.body.tier = "DeepL" THEN DeepLResult(f.body.data, txt)
        ELSE IF f.body.tier = "Libre" THEN LibreResult(f.body.data, txt)
        ELSE IF /\ f.body.tier = "Google"
                /\ Parses(f.body.data) /\ ~GoogleThrows(f.body.data)
             THEN GoogleResult(f.body.data, txt)
             ELSE txt

OwnData(f, n) ==
    /\ f.original = ConcArgs[n].original
    /\ f.targetDeepL = ConcArgs[n].targetDeepL
    /\ f.pc # "start" => f.text = preProcessText(f.original)
    /\ \A i \in 1..Len(f.calls) :
          /\ f.calls[i].text = preProcessText(f.original)
          /\ f.calls[i].target = IF f.calls[i].tier = "DeepL"
                                 THEN f.targetDeepL
                                 ELSE TargetBase(f.targetDeepL)
    /\ f.outcome = "returned" => f.result = SoloResult(f)

C15_RequestIsolation ==
    /\ [](OwnData(Frame, cur) /\ OwnData(parked, 3 - cur))
    /\ [][cur' = cur => parked' = parked]_vars
    /\ [][cur' # cur => (parked' = Frame /\ Frame' = parked)]_vars
    /\ [][UNCHANGED config]_vars

\* both requests have a provider call in flight, each after a failed one
C15_Witness ==
    /\ net = "pending" /\ parked.net = "pending"
    /\ Len(calls) >= 2 /\ Len(parked.calls) >= 2
    /\ calls[1].text # parked.calls[1].text

\* both requests have returned, each its own answer
C15_WitnessDone ==
    /\ outcome = "returned" /\ parked.outcome = "returned"
    /\ result # parked.result
    /\ body.tier = "Google" /\ parked.body.tier = "Google"

====
